---- MODULE Spec2Model ----
(***************************************************************************)
(* vnpy_xt: the XtQuant data-service interface of VeighNa.                 *)
(*                                                                         *)
(* The sources are the README revisions (the connection rules of the       *)
(* datafeed: token connection and client connection) and the demo script   *)
(* script/xtdata_demo.ipynb, whose cells call the vendor functions.        *)
(*                                                                         *)
(* The model runs the demo script cell by cell from top to bottom, after   *)
(* the datafeed configuration (datafeed.username, datafeed.password) has   *)
(* been read.  The vendor library is closed source: each vendor call       *)
(* answers nondeterministically (data, an empty result, or an exception),  *)
(* within what the README says about the two connection modes.  An         *)
(* exception aborts the rest of its cell; the next cell can still be run.  *)
(***************************************************************************)
EXTENDS Naturals, Sequences, FiniteSets

\* ------------------------------------------------------------------ bounds

\* Vendor calls that may answer with an empty result or an exception in a run.
MaxFaults == 2
\* Times the local XunTou client may be stopped or started during a run.
MaxToggles == 2

\* ----------------------------------------------------------- configuration

\* An argument, or a configuration value, that is not given.
NoArg == "<none>"

\* datafeed.username: "client", "token", left unset, or anything else.
Usernames == {"client", "token", NoArg, "user1"}

\* datafeed.password: left empty, or a token copied from the user centre.
Passwords == {"", "tokenA"}

\* Faulty variant: the password switches a "client" username to token mode.
ConnectionMode_PasswordWins(u, p) ==
    IF u = "client" /\ p = "" THEN "client" ELSE "token"

\* Faulty variant: token mode only when the username is literally "token".
ConnectionMode_TokenOnly(u, p) ==
    IF u = "client" THEN "client" ELSE IF u = "token" THEN "token" ELSE "none"

\* The connection rule: username "client" connects through the local client
\* whatever the password is; anything else connects with the token.
ConnectionMode(u, p) ==
    IF u = "client" THEN "client" ELSE "token"

\* Faulty variant: the token cell is run in client mode too.
RunsTokenCell_Always(m) == TRUE

\* The token cell is run for a token connection only.
RunsTokenCell(m) == m = "token"

\* str(TEMP_DIR) + "\\xt"
DataHomeDir == "TEMP_DIR\\xt"

\* Faulty variant: init() before the token and the data directory are set.
BootCalls_InitFirst(tok) ==
    << [fn |-> "init", arg |-> NoArg],
       [fn |-> "set_token", arg |-> tok],
       [fn |-> "set_data_home_dir", arg |-> DataHomeDir] >>

\* The token cell's three vendor calls, in the order written.
BootCalls(tok) ==
    << [fn |-> "set_token", arg |-> tok],
       [fn |-> "set_data_home_dir", arg |-> DataHomeDir],
       [fn |-> "init", arg |-> NoArg] >>

\* ------------------------------------------------------- the demo's cells

\* The arguments of a vendor data function, bound by parameter name.  Dates
\* are the literals' digits (yyyymmdd); 0 is a date that is not given.
Args(code, list, period, start, end) ==
    [code |-> code, list |-> list, period |-> period, start |-> start, end |-> end,
     iscomplete |-> FALSE]

NoArgs == Args(NoArg, <<>>, NoArg, 0, 0)

\* A statement: a vendor data call (its result bound to var, or indexed by key
\* first), a lookup var[key], the n-th call of the token cell, or the import.
Call(cell, fn, args, var, key) ==
    [cell |-> cell, op |-> "call", fn |-> fn, args |-> args, var |-> var,
     key |-> key, n |-> 0]

Lookup(cell, src, key) ==
    [cell |-> cell, op |-> "lookup", fn |-> NoArg, args |-> NoArgs, var |-> src,
     key |-> key, n |-> 0]

Boot(cell, k) ==
    [cell |-> cell, op |-> "boot", fn |-> NoArg, args |-> NoArgs, var |-> NoArg,
     key |-> NoArg, n |-> k]

TokenCell == << Boot(1, 1), Boot(1, 2), Boot(1, 3) >>

ImportCell ==
    << [cell |-> 2, op |-> "import", fn |-> NoArg, args |-> NoArgs, var |-> NoArg,
        key |-> NoArg, n |-> 0] >>

FullTickCell ==
    << Call(3, "get_full_tick", Args(NoArg, <<"SZO">>, NoArg, 0, 0), NoArg, NoArg) >>

HistoryContractCell ==
    << Call(4, "download_history_data", Args("", <<>>, "historycontract", 0, 0),
            NoArg, NoArg) >>

\* The sector name is the expired CFFEX contracts' sector.
ExpiredSectorCell ==
    << Call(5, "get_stock_list_in_sector", Args("expired CFFEX", <<>>, NoArg, 0, 0),
            "contract_data", NoArg) >>

InstrumentDetailCell ==
    << Call(6, "get_instrument_detail",
            [Args("90000001.SZO", <<>>, NoArg, 0, 0) EXCEPT !.iscomplete = TRUE],
            NoArg, NoArg) >>

OptionBarCell ==
    << Call(7, "download_history_data",
            Args("90000001.SZO", <<>>, "1m", 20200101, 20200112), NoArg, NoArg),
       Call(7, "get_local_data",
            Args(NoArg, <<"90000001.SZO">>, "1m", 20200101, 20200112), "data1", NoArg) >>

\* Faulty variant: the download starts after the first day that is read.
FuturesBarCell_ShortDownload ==
    << Call(8, "download_history_data",
            Args("rb2401.SF", <<>>, "1m", 20231027, 20231030), NoArg, NoArg),
       Call(8, "get_local_data",
            Args(NoArg, <<"rb2401.SF">>, "1m", 20231026, 20231030), "data1", NoArg) >>

FuturesBarCell ==
    << Call(8, "download_history_data",
            Args("rb2401.SF", <<>>, "1m", 20230601, 20231030), NoArg, NoArg),
       Call(8, "get_local_data",
            Args(NoArg, <<"rb2401.SF">>, "1m", 20231026, 20231030), "data1", NoArg) >>

\* df = data1["90000001.SZO"]
DataFrameCell == << Lookup(9, "data1", "90000001.SZO") >>

TickCell ==
    << Call(10, "download_history_data",
            Args("rb2309.SF", <<>>, "tick", 20230821, 20230822), NoArg, NoArg),
       Call(10, "get_local_data",
            Args(NoArg, <<"rb2309.SF">>, "tick", 20230821, 20230822), "data2", NoArg) >>

FinancialCell ==
    << Call(11, "download_financial_data",
            Args(NoArg, <<"600519.SH">>, NoArg, 0, 0), NoArg, NoArg),
       Call(11, "get_financial_data",
            Args(NoArg, <<"600519.SH">>, NoArg, 0, 0), "data3", NoArg) >>

SectorCell ==
    << Call(12, "get_stock_list_in_sector", Args("SZO", <<>>, NoArg, 0, 0),
            NoArg, NoArg) >>

WarehouseReceiptCell ==
    << Call(13, "download_history_data", Args("", <<>>, "warehousereceipt", 0, 0),
            NoArg, NoArg),
       Call(13, "get_market_data_ex",
            Args(NoArg, <<"rb.SF">>, "warehousereceipt", 0, 0), "data4", NoArg) >>

HolderRankCell ==
    << Call(14, "download_history_data",
            Args("rb2401.SF", <<>>, "futureholderrank", 20231011, 20231012),
            NoArg, NoArg),
       Call(14, "get_market_data_ex",
            Args(NoArg, <<"rb2401.SF">>, "futureholderrank", 0, 0),
            "data5", "rb2401.SF") >>

MoneyFlowCell ==
    << Call(15, "download_history_data",
            Args("000333.SZ", <<>>, "transactioncount1d", 0, 0), NoArg, NoArg),
       Call(15, "get_market_data_ex",
            Args(NoArg, <<"000333.SZ">>, "transactioncount1d", 0, 0), "data6", NoArg) >>

NorthFinanceCell ==
    << Call(16, "download_history_data",
            Args("FFFFFF.SGT", <<>>, "northfinancechange1d", 0, 0), NoArg, NoArg),
       Call(16, "get_market_data_ex",
            Args(NoArg, <<"FFFFFF.SGT">>, "northfinancechange1d", 0, 0),
            "data7", NoArg) >>

\* The script, its cells from top to bottom.
Script ==
    TokenCell \o ImportCell \o FullTickCell \o HistoryContractCell
    \o ExpiredSectorCell \o InstrumentDetailCell \o OptionBarCell
    \o FuturesBarCell \o DataFrameCell \o TickCell \o FinancialCell
    \o SectorCell \o WarehouseReceiptCell \o HolderRankCell \o MoneyFlowCell
    \o NorthFinanceCell

Done == Len(Script) + 1

\* The first statement of the cell after statement i's cell.
NextCellStart(i) ==
    LET later == {j \in (i + 1)..Len(Script) : Script[j].cell # Script[i].cell}
    IN  IF later = {} THEN Done
        ELSE CHOOSE j \in later : \A k \in later : j <= k

\* The names the import cell binds, each to the vendor function of that name.
Imported ==
    {"get_full_tick", "get_instrument_detail", "get_local_data",
     "download_history_data", "get_stock_list_in_sector",
     "download_financial_data", "get_financial_data", "get_market_data_ex"}

DownloadFns == {"download_history_data", "download_financial_data"}

ReadFns == {"get_local_data", "get_market_data_ex", "get_financial_data"}

\* The script's variables that hold results.
ResultVars ==
    {"contract_data", "data1", "data2", "data3", "data4", "data5", "data6",
     "data7", "df"}

Range(s) == {s[i] : i \in 1..Len(s)}

\* -------------------------------------------------------------- the vendor

\* Faulty variant: the vendor answers a client connection whether or not the client
\* is running.
VendorOutcomes_IgnoresClient(fn, m, up) ==
    IF fn \in DownloadFns THEN {"none", "error"} ELSE {"data", "empty", "error"}

\* What a vendor data function can answer.  A download returns nothing or
\* raises; the others return data, an empty result, or raise.  A client
\* connection needs the XunTou client kept running; a token connection does not.
VendorOutcomes(fn, m, up) ==
    IF m = "client" /\ ~up THEN {"error"}
    ELSE IF fn \in DownloadFns THEN {"none", "error"}
    ELSE {"data", "empty", "error"}

IsFault(resp) == resp \in {"empty", "error"}

\* ------------------------------------------------------------- forwarding

\* Faulty variant: the period is dropped on the way to the vendor.
ForwardArgs_DropsPeriod(args) == [args EXCEPT !.period = NoArg]

\* The imported name is the vendor function itself: it receives the call's
\* arguments as they are written.
ForwardArgs(args) == args

\* Faulty variant: a call is answered from the previous call's result.
ForwardResult_Cached(resp, prev) == IF prev = NoArg THEN resp ELSE prev

\* The value of a call expression is what the vendor function returned (an
\* exception propagates); prev, the value of the previous call, is not used.
ForwardResult(resp, prev) == resp

\* Faulty variant: a call that raised is made again.
Attempts_RetryOnError(resp) == IF resp = "error" THEN 2 ELSE 1

\* A call statement calls the vendor function once.
Attempts(resp) == 1

\* ------------------------------------------------------------------ state

VARIABLES
    pc,             \* 0: configuration not read yet; else the next statement
    username,       \* datafeed.username
    password,       \* datafeed.password
    mode,           \* the connection mode selected: "client" or "token"
    clientRunning,  \* whether the local XunTou client is running
    imported,       \* the vendor functions the import cell has bound
    bootLog,        \* the token cell's vendor calls made, with their outcome
    nCaller,        \* data call statements executed
    nVendor,        \* vendor data function invocations
    last,           \* the last data call, as written and as the vendor saw it
    downloads,      \* the downloads that returned, as the vendor received them
    store,          \* the script's variables
    lookups,        \* the lookups by symbol key made
    faults,         \* vendor calls that answered empty or raised on their own
    toggles         \* times the client was stopped or started

vars ==
    << pc, username, password, mode, clientRunning, imported, bootLog, nCaller,
       nVendor, last, downloads, store, lookups, faults, toggles >>

Unbound == [def |-> FALSE, syms |-> {}]

NoCall ==
    [fn |-> NoArg, args |-> NoArgs, vfn |-> NoArg, recv |-> NoArgs,
     choices |-> {}, resp |-> NoArg, result |-> NoArg, prev |-> NoArg,
     up |-> FALSE]

Init ==
    /\ pc = 0
    /\ username = NoArg
    /\ password = NoArg
    /\ mode = NoArg
    /\ clientRunning \in BOOLEAN
    /\ imported = {}
    /\ bootLog = << >>
    /\ nCaller = 0
    /\ nVendor = 0
    /\ last = NoCall
    /\ downloads = {}
    /\ store = [v \in ResultVars |-> Unbound]
    /\ lookups = << >>
    /\ faults = 0
    /\ toggles = 0

\* An answer the run's bounds allow: a fault the vendor is forced to give (the
\* client is down) is always allowed, one it gives on its own while faults remain.
Allowed(resp, choices) ==
    \/ ~IsFault(resp)
    \/ faults < MaxFaults
    \/ \A r \in choices : IsFault(r)

Forced(choices) == \A r \in choices : IsFault(r)

\* (a) The configuration is read and selects the connection mode.
ReadConfig ==
    /\ pc = 0
    /\ \E u \in Usernames, p \in Passwords :
          /\ username' = u
          /\ password' = p
          /\ mode' = ConnectionMode(u, p)
    /\ pc' = 1
    /\ UNCHANGED << clientRunning, imported, bootLog, nCaller, nVendor, last,
                    downloads, store, lookups, faults, toggles >>

\* (b) One call of the token cell: set_token, set_data_home_dir or init.
BootCall ==
    /\ pc \in 1..Len(Script)
    /\ Script[pc].op = "boot"
    /\ RunsTokenCell(mode)
    /\ LET c == BootCalls(password)[Script[pc].n] IN
        \E resp \in {"none", "error"} :
          /\ Allowed(resp, {"none", "error"})
          /\ bootLog' = Append(bootLog, [fn |-> c.fn, arg |-> c.arg, resp |-> resp])
          /\ faults' = IF IsFault(resp) THEN faults + 1 ELSE faults
          /\ pc' = IF resp = "error" THEN NextCellStart(pc) ELSE pc + 1
    /\ UNCHANGED << username, password, mode, clientRunning, imported, nCaller,
                    nVendor, last, downloads, store, lookups, toggles >>

\* With a client connection the token cell is not run.
SkipTokenCell ==
    /\ pc \in 1..Len(Script)
    /\ Script[pc].op = "boot"
    /\ ~RunsTokenCell(mode)
    /\ pc' = NextCellStart(pc)
    /\ UNCHANGED << username, password, mode, clientRunning, imported, bootLog,
                    nCaller, nVendor, last, downloads, store, lookups, faults,
                    toggles >>

\* from xtquant.xtdata import (...)
Import ==
    /\ pc \in 1..Len(Script)
    /\ Script[pc].op = "import"
    /\ imported' = Imported
    /\ pc' = pc + 1
    /\ UNCHANGED << username, password, mode, clientRunning, bootLog, nCaller,
                    nVendor, last, downloads, store, lookups, faults, toggles >>

\* (c) A data call statement: the vendor function is called with the arguments
\* written; its result is bound to the statement's variable, after the index
\* by symbol key when the statement has one.  An exception ends the cell.
DataCall ==
    /\ pc \in 1..Len(Script)
    /\ Script[pc].op = "call"
    /\ Script[pc].fn \in imported
    /\ LET s == Script[pc]
           recv == ForwardArgs(s.args)
           choices == VendorOutcomes(s.fn, mode, clientRunning)
       IN
        \E resp \in choices :
          LET result == ForwardResult(resp, last.result)
              syms == Range(s.args.list)
              raised == result = "error" \/ (s.key # NoArg /\ s.key \notin syms)
          IN
          /\ Allowed(resp, choices)
          /\ faults' = IF IsFault(resp) /\ ~Forced(choices) THEN faults + 1 ELSE faults
          /\ nCaller' = nCaller + 1
          /\ nVendor' = nVendor + Attempts(resp)
          /\ last' = [fn |-> s.fn, args |-> s.args, vfn |-> s.fn, recv |-> recv,
                      choices |-> choices, resp |-> resp, result |-> result,
                      prev |-> last.result, up |-> clientRunning]
          /\ downloads' =
                IF s.fn \in DownloadFns /\ resp # "error"
                THEN downloads \cup {[fn |-> s.fn, args |-> recv]}
                ELSE downloads
          /\ lookups' =
                IF result # "error" /\ s.key # NoArg
                THEN Append(lookups, [cell |-> s.cell, key |-> s.key, def |-> TRUE,
                                      syms |-> syms])
                ELSE lookups
          /\ store' =
                IF raised \/ s.var = NoArg THEN store
                ELSE [store EXCEPT ![s.var] =
                        [def |-> TRUE,
                         syms |-> IF s.key = NoArg THEN syms ELSE {}]]
          /\ pc' = IF raised THEN NextCellStart(pc) ELSE pc + 1
    /\ UNCHANGED << username, password, mode, clientRunning, imported, bootLog,
                    toggles >>

\* A lookup var[key] of a result by symbol key, bound to df.
LookupStmt ==
    /\ pc \in 1..Len(Script)
    /\ Script[pc].op = "lookup"
    /\ LET s == Script[pc]
           held == store[s.var]
       IN
          /\ lookups' = Append(lookups, [cell |-> s.cell, key |-> s.key,
                                         def |-> held.def, syms |-> held.syms])
          /\ store' =
                IF held.def /\ s.key \in held.syms
                THEN [store EXCEPT !["df"] = [def |-> TRUE, syms |-> {}]]
                ELSE store
          /\ pc' = IF held.def /\ s.key \in held.syms THEN pc + 1
                   ELSE NextCellStart(pc)
    /\ UNCHANGED << username, password, mode, clientRunning, imported, bootLog,
                    nCaller, nVendor, last, downloads, faults, toggles >>

\* The user stops the local XunTou client.
ClientStops ==
    /\ clientRunning
    /\ toggles < MaxToggles
    /\ pc < Done
    /\ clientRunning' = FALSE
    /\ toggles' = toggles + 1
    /\ UNCHANGED << pc, username, password, mode, imported, bootLog, nCaller,
                    nVendor, last, downloads, store, lookups, faults >>

\* The user starts the local XunTou client.
ClientStarts ==
    /\ ~clientRunning
    /\ toggles < MaxToggles
    /\ pc < Done
    /\ clientRunning' = TRUE
    /\ toggles' = toggles + 1
    /\ UNCHANGED << pc, username, password, mode, imported, bootLog, nCaller,
                    nVendor, last, downloads, store, lookups, faults >>

Next ==
    \/ ReadConfig
    \/ BootCall
    \/ SkipTokenCell
    \/ Import
    \/ DataCall
    \/ LookupStmt
    \/ ClientStops
    \/ ClientStarts

Spec == Init /\ [][Next]_vars

\* ----------------------------------------------------------------- claims

ConfigRead == pc # 0

BootFns == [i \in 1..Len(bootLog) |-> bootLog[i].fn]

BootRaised == \E i \in 1..Len(bootLog) : bootLog[i].resp = "error"

InitCalled == \E i \in 1..Len(bootLog) : bootLog[i].fn = "init"

\* No vendor call of the run so far has failed: none answered empty or raised
\* on its own, and the client of a client connection has been running throughout.
NoFailure ==
    faults = 0 /\ (mode = "client" => (clientRunning /\ toggles = 0))

C2_ForwardedVerbatim ==
    /\ nVendor = nCaller
    /\ nCaller > 0 =>
          /\ last.vfn = last.fn
          /\ last.recv = last.args
          /\ last.result = last.resp
          /\ \E i \in 1..Len(Script) :
                Script[i].op = "call" /\ Script[i].fn = last.fn
                /\ Script[i].args = last.recv

C2_Witness ==
    /\ last.fn = "get_local_data"
    /\ last.recv.period = "tick"
    /\ last.result = "data"
    /\ nVendor = 10

\* C3: with datafeed.username "client" the connection is the client connection
\* for every datafeed.password, and no token initialization is performed.
C3_ClientWhateverPassword ==
    (ConfigRead /\ username = "client") => (mode = "client" /\ bootLog = << >>)

C3_Witness ==
    username = "client" /\ password = "tokenA" /\ mode = "client" /\ nCaller > 0

C6_FailureForwarded ==
    [][(nCaller' > nCaller /\ IsFault(last'.resp)) =>
          /\ last'.result = last'.resp
          /\ nVendor' = nVendor + 1
          /\ last'.vfn = last'.fn
          /\ bootLog' = bootLog
          /\ mode' = mode]_vars

C6_Witness ==
    /\ nCaller > 1
    /\ last.resp = "error"
    /\ last.result = "error"
    /\ last.prev = "empty"
    /\ Len(bootLog) = 3

\* C7: no state is kept across forwarded calls: once the configuration is
\* read the connection mode never changes, and a call's value is the vendor's
\* answer to that call whatever the value of the call before it was.
C7_NoStateAcrossCalls ==
    [][/\ ConfigRead => (mode' = mode /\ username' = username
                          /\ password' = password)
       /\ nCaller' > nCaller => last'.result = last'.resp]_vars

C7_Witness ==
    /\ nCaller > 1
    /\ last.fn = "get_stock_list_in_sector"
    /\ last.prev = "data"
    /\ last.result = "empty"
    /\ store["data3"].def

DownloadCovers(d, sym) ==
    IF d.fn = "download_financial_data" THEN sym \in Range(d.args.list)
    ELSE d.args.code = sym \/ d.args.code = ""

RangeGiven(a) == a.start # 0 \/ a.end # 0

\* A range that is not given is the whole history.
RangeContains(d, r) ==
    \/ ~RangeGiven(d)
    \/ RangeGiven(r) /\ d.start <= r.start /\ r.end <= d.end

\* C9, as claimed: every read of stored data is preceded by a download of the
\* same period, for the symbol or for all symbols, whose date range, when
\* given, contains the range that is read (stated for the runs in which no
\* vendor call fails).
C9_DownloadCoversRead ==
    (last.fn \in ReadFns /\ NoFailure) =>
      \A sym \in Range(last.recv.list) :
        \E d \in downloads :
          /\ d.args.period = last.recv.period
          /\ DownloadCovers(d, sym)
          /\ RangeContains(d.args, last.recv)

\* C9, amended: every read of stored data is preceded by a download of the
\* same period, for the symbol or for all symbols; when the read gives a date
\* range, the download's range, when given, contains it.
C9_DownloadCoversGivenRange ==
    last.fn \in ReadFns =>
      \A sym \in Range(last.recv.list) :
        \E d \in downloads :
          /\ d.args.period = last.recv.period
          /\ DownloadCovers(d, sym)
          /\ RangeGiven(last.recv) => RangeContains(d.args, last.recv)

C9_Witness ==
    /\ last.fn = "get_local_data"
    /\ last.recv.start = 20231026
    /\ last.result = "data"
    /\ \E d \in downloads : d.args.code = "rb2401.SF" /\ d.args.start = 20230601

\* C10: every lookup of a result by symbol key uses a symbol of the symbol
\* list of the call that produced the value the variable holds (stated for
\* the runs in which no vendor call fails).
C10_LookupKeyInResult ==
    NoFailure =>
      \A i \in 1..Len(lookups) :
        lookups[i].def => lookups[i].key \in lookups[i].syms

====
